---- MODULE Spec2Model ----
(***************************************************************************)
(* A model of quantumwaffy/practice:                                       *)
(*   task_1/parser.py  the rooms/students pipeline (descriptors, comparer  *)
(*                     objects, serializers, RoomStudentFileHandler)       *)
(*   task_2/main.py    the Version wrapper around parse_version            *)
(*                                                                         *)
(* Python values are modelled as follows.  A dict is a function whose      *)
(* domain is its set of keys.  A list is a sequence.  A value that is      *)
(* either None or a list is the record [isNone, items].  The room dicts    *)
(* are mutable objects: they live in `heap` and lists of rooms hold their  *)
(* addresses, so that aliasing and copying are distinguishable.            *)
(***************************************************************************)
EXTENDS Integers, Sequences, FiniteSets, TLC

VARIABLES
    \* ---- the comparer objects (RoomStudentComparerData and subclasses)
    rooms_in,       \* the rooms list as the caller built it (history)
    students_in,    \* the students list passed to the constructor
    heap,           \* address -> room dict
    rooms_data,     \* the caller's rooms list: a sequence of addresses
    cmp,            \* format -> comparer object
    \* ---- one run of RoomStudentFileHandler
    pc,             \* position of the run
    output_format,  \* the format string given to the handler
    fs,             \* the input files: path -> [kind, data]
    out_file,       \* students_rooms_data.<format> on disk
    run,            \* values held by the run (loaded, compared, serialized)
    error,          \* the exception that ended the run, "" if none
    trace,          \* the observable steps of the run, in order (history)
    \* ---- task_2: main()'s loop over Version pairs
    ver             \* [pc, a, b, lt, gt, ne, failed]

vars == <<rooms_in, students_in, heap, rooms_data, cmp,
          pc, output_format, fs, out_file, run, error, trace, ver>>

cmpVars == <<rooms_in, students_in, heap, rooms_data, cmp>>
runVars == <<pc, output_format, fs, out_file, run, error, trace>>

(***************************************************************************)
(* Bounds of the model.                                                    *)
(***************************************************************************)
MaxRooms == 2
MaxStudents == 3

(***************************************************************************)
(* Python values.                                                          *)
(***************************************************************************)
\* dict.get(key) of a missing key, where the key slot holds an integer.
NoneKey == -1

PyNone == [isNone |-> TRUE, items |-> <<>>]
PyList(s) == [isNone |-> FALSE, items |-> s]
EmptyDict == [k \in {} |-> 0]

\* The elements of a value that is None or a list; None has none.
StudentsOfValue(v) == IF v.isNone THEN <<>> ELSE v.items

\* d.update(u): the keys of u are set in d, the other keys of d are kept.
DictUpdate(d, u) == u @@ d

\* student.get("room") / room.get("id")
GetKey(d, k) == IF k \in DOMAIN d THEN d[k] ELSE NoneKey

\* The sequences over S of length at most n.
SeqsUpTo(S, n) == UNION {[1..k -> S] : k \in 0..n}

Range(s) == {s[i] : i \in DOMAIN s}

(***************************************************************************)
(* The input universe.                                                     *)
(***************************************************************************)
RoomIds == {1, 2}
StudentIds == {10, 11}
StudentRooms == {1, 2, 3}           \* 3 is the id of no room

RoomName(i) == IF i = 1 THEN "Math" ELSE "Physics"
StudentName(i) == IF i = 10 THEN "Alice" ELSE "Bob"

RoomRecs == {[id |-> i, name |-> RoomName(i)] : i \in RoomIds}
StudentRecs ==
    {[id |-> i, name |-> StudentName(i), room |-> r] :
        i \in StudentIds, r \in StudentRooms}

\* A student record without `room`, and a name json.load() decodes from the
\* escape "\ud800": a lone surrogate, which no text encoding can encode.
RoomlessStudent == [id |-> 10, name |-> "Alice"]
Surrogate == "\\ud800"

(***************************************************************************)
(* RoomStudentComparerData.__init__                                        *)
(***************************************************************************)
RoomKey(student) == GetKey(student, "room")

\* sorted(students_data, key=...) compares keys with <, which raises
\* TypeError when an operand is None; with two or more elements every
\* element takes part in a comparison.
SortRaises(students) ==
    Len(students) >= 2 /\ \E i \in DOMAIN students : RoomKey(students[i]) = NoneKey

\* Insert x after every element whose key is <= key(x): the insertion that
\* keeps equal keys in encounter order (sorted() is stable).
RECURSIVE InsertStable(_, _)
InsertStable(x, s) ==
    IF s = <<>> THEN <<x>>
    ELSE IF RoomKey(x) < RoomKey(Head(s)) THEN <<x>> \o s
    ELSE <<Head(s)>> \o InsertStable(x, Tail(s))

RECURSIVE SortedFrom(_, _)
SortedFrom(acc, rest) ==
    IF rest = <<>> THEN acc
    ELSE SortedFrom(InsertStable(Head(rest), acc), Tail(rest))

\* A sort by room that is not stable: equal keys come out in reverse order.
RECURSIVE InsertUnstable(_, _)
InsertUnstable(x, s) ==
    IF s = <<>> THEN <<x>>
    ELSE IF RoomKey(x) <= RoomKey(Head(s)) THEN <<x>> \o s
    ELSE <<Head(s)>> \o InsertUnstable(x, Tail(s))

RECURSIVE UnstableSortedFrom(_, _)
UnstableSortedFrom(acc, rest) ==
    IF rest = <<>> THEN acc
    ELSE UnstableSortedFrom(InsertUnstable(Head(rest), acc), Tail(rest))

SortedByRoomUnstable(students) == UnstableSortedFrom(<<>>, students)

\* The students are not sorted at all before grouping.
SortedByRoomSkipped(students) == students

\* sorted(students_data, key=lambda student: student.get("room"))
SortedByRoom(students) == SortedFrom(<<>>, students)

\* copy.copy(rooms_data): a new list of the same dict objects.
ShallowCopy(h, addrs) == [heap |-> h, addrs |-> addrs]

\* copy.deepcopy(rooms_data): a new list of new dicts with equal contents.
DeepCopy(h, addrs) ==
    [heap  |-> h \o [i \in 1..Len(addrs) |-> h[addrs[i]]],
     addrs |-> [i \in 1..Len(addrs) |-> Len(h) + i]]

\* The cache attribute before the first build: the class attribute, None.
NoCache == [isNone |-> TRUE, map |-> EmptyDict]

\* A comparer object that has not been constructed yet.  `builds` counts the
\* constructions of the index during the latest compare() call and
\* `returned` is what that call returned (history).
Unbuilt == [state |-> "unbuilt", students_data |-> <<>>, preset |-> <<>>,
            cache |-> NoCache, builds |-> 0, returned |-> PyNone]

\* The object and heap after __init__(rooms_data, students_data); the
\* constructor raises TypeError where sorted() does.
Construct(h, addrs, students) ==
    IF SortRaises(students)
    THEN [heap |-> h, obj |-> [Unbuilt EXCEPT !.state = "TypeError"]]
    ELSE LET c == DeepCopy(h, addrs) IN
         [heap |-> c.heap,
          obj  |-> [Unbuilt EXCEPT !.state = "ready",
                                   !.students_data = SortedByRoom(students),
                                   !.preset = c.addrs]]

(***************************************************************************)
(* RoomStudentComparerData._prepared_students_data                         *)
(***************************************************************************)
\* The length of the longest prefix of s whose elements all have key k.
RECURSIVE RunLength(_, _)
RunLength(s, k) ==
    IF s = <<>> \/ RoomKey(Head(s)) # k THEN 0
    ELSE 1 + RunLength(Tail(s), k)

\* itertools.groupby(s, key): the maximal runs of consecutive equal keys.
RECURSIVE GroupBy(_)
GroupBy(s) ==
    IF s = <<>> THEN <<>>
    ELSE LET k == RoomKey(Head(s))
             n == RunLength(s, k)
         IN  <<[key |-> k, items |-> SubSeq(s, 1, n)]>>
             \o GroupBy(SubSeq(s, n + 1, Len(s)))

\* {room: list(students) for room, students in groups}: a later group with
\* the same key replaces an earlier one.
DictOfGroups(groups) ==
    [k \in {groups[i].key : i \in DOMAIN groups} |->
        LET last == CHOOSE i \in DOMAIN groups :
                        /\ groups[i].key = k
                        /\ \A j \in DOMAIN groups : groups[j].key = k => j <= i
        IN  groups[last].items]

\* `not cache`: None and the empty dict are both falsy.
Falsy(cache) == cache.isNone \/ DOMAIN cache.map = {}

\* One read of the property: the object afterwards (the value read is its
\* cache.map).
PreparedStudentsData(obj) ==
    IF Falsy(obj.cache)
    THEN [obj EXCEPT !.cache = [isNone |-> FALSE,
                                map |-> DictOfGroups(GroupBy(obj.students_data))],
                     !.builds = @ + 1]
    ELSE obj

\* index.get(key): None when the key is absent.
IndexGet(map, k) == IF k \in DOMAIN map THEN PyList(map[k]) ELSE PyNone

(***************************************************************************)
(* JSONRoomStudentComparerData.compare / XMLRoomStudentComparerData.compare*)
(***************************************************************************)
\* room.update({"students": v})
JSONAttach(room, v) == DictUpdate(room, [students |-> v])

RECURSIVE JSONCompareFrom(_, _, _)
JSONCompareFrom(h, obj, i) ==
    IF i > Len(obj.preset) THEN [heap |-> h, obj |-> obj]
    ELSE LET o == PreparedStudentsData(obj)
             a == obj.preset[i]
             v == IndexGet(o.cache.map, GetKey(h[a], "id"))
         IN  JSONCompareFrom([h EXCEPT ![a] = JSONAttach(@, v)], o, i + 1)

\* The heap and the object after compare() of the flat variant.
JSONCompare(h, obj) ==
    LET r == JSONCompareFrom(h, [obj EXCEPT !.builds = 0], 1)
    IN  [heap |-> r.heap,
         obj  |-> [r.obj EXCEPT !.returned = PyList(r.obj.preset)]]

\* room.update({"students": {}}) for every room, in order.
RECURSIVE XMLResetFrom(_, _, _)
XMLResetFrom(h, preset, i) ==
    IF i > Len(preset) THEN h
    ELSE XMLResetFrom([h EXCEPT ![preset[i]] =
                          DictUpdate(@, [students |-> EmptyDict])],
                      preset, i + 1)

\* The wrapped variant with the empty default applied to it alone.
XMLAttachDefaulting(room, v) ==
    DictUpdate(room, [students |->
        DictUpdate(room.students,
                   [student |-> IF v.isNone THEN PyList(<<>>) ELSE v])])

\* room.get("students").update({"student": v})
XMLAttach(room, v) ==
    DictUpdate(room, [students |-> DictUpdate(room.students, [student |-> v])])

RECURSIVE XMLCompareFrom(_, _, _)
XMLCompareFrom(h, obj, i) ==
    IF i > Len(obj.preset) THEN [heap |-> h, obj |-> obj]
    ELSE LET o == PreparedStudentsData(obj)
             a == obj.preset[i]
             v == IndexGet(o.cache.map, GetKey(h[a], "id"))
         IN  XMLCompareFrom([h EXCEPT ![a] = XMLAttach(@, v)], o, i + 1)

\* The heap and the object after compare() of the wrapped variant.
XMLCompare(h, obj) ==
    LET r == XMLCompareFrom(XMLResetFrom(h, obj.preset, 1),
                            [obj EXCEPT !.builds = 0], 1)
    IN  [heap |-> r.heap,
         obj  |-> [r.obj EXCEPT !.returned = PyList(r.obj.preset)]]

\* RoomStudentFileFactory._comparison_handlers
Formats == {"json", "xml"}

Compare(f, h, obj) == IF f = "json" THEN JSONCompare(h, obj) ELSE XMLCompare(h, obj)

(***************************************************************************)
(* The comparer objects as a state machine: a caller holds one rooms list  *)
(* and one students list, constructs a comparer of either class from them  *)
(* and calls compare() on it any number of times.                          *)
(***************************************************************************)
IdleRun ==
    /\ pc = "idle"
    /\ output_format = ""
    /\ fs = EmptyDict
    /\ out_file = "absent"
    /\ run = EmptyDict
    /\ error = ""
    /\ trace = <<>>

IdleVer == ver = [pc |-> "idle"]

InitComparer ==
    /\ rooms_in \in SeqsUpTo(RoomRecs, MaxRooms)
    /\ students_in \in SeqsUpTo(StudentRecs, MaxStudents)
    /\ heap = rooms_in
    /\ rooms_data = [i \in 1..Len(rooms_in) |-> i]
    /\ cmp = [f \in Formats |-> Unbuilt]
    /\ IdleRun
    /\ IdleVer

\* comparer = <class of f>(rooms_data, students_data)
NewComparer(f) ==
    /\ cmp[f].state = "unbuilt"
    /\ LET c == Construct(heap, rooms_data, students_in) IN
       /\ heap' = c.heap
       /\ cmp' = [cmp EXCEPT ![f] = c.obj]
    /\ UNCHANGED <<rooms_in, students_in, rooms_data, runVars, ver>>

\* JSONRoomStudentComparerData.compare()
CallJSONCompare ==
    /\ cmp["json"].state = "ready"
    /\ LET c == JSONCompare(heap, cmp["json"]) IN
       /\ heap' = c.heap
       /\ cmp' = [cmp EXCEPT !["json"] = c.obj]
    /\ UNCHANGED <<rooms_in, students_in, rooms_data, runVars, ver>>

\* XMLRoomStudentComparerData.compare()
CallXMLCompare ==
    /\ cmp["xml"].state = "ready"
    /\ LET c == XMLCompare(heap, cmp["xml"]) IN
       /\ heap' = c.heap
       /\ cmp' = [cmp EXCEPT !["xml"] = c.obj]
    /\ UNCHANGED <<rooms_in, students_in, rooms_data, runVars, ver>>

NextComparer ==
    \/ \E f \in Formats : NewComparer(f)
    \/ CallJSONCompare
    \/ CallXMLCompare

SpecComparer == InitComparer /\ [][NextComparer]_vars

(***************************************************************************)
(* What compare() returned, read back from the heap.                       *)
(***************************************************************************)
Compared(f) == ~cmp[f].returned.isNone

\* The i-th augmented room compare() of variant f returned.
Augmented(f, i) == heap[cmp[f].returned.items[i]]

HasAssociation(f, i) ==
    /\ "students" \in DOMAIN Augmented(f, i)
    /\ f = "xml" => "student" \in DOMAIN Augmented(f, i).students

\* The value under `students` (flat) or `students.student` (wrapped).
Association(f, i) ==
    IF f = "json" THEN Augmented(f, i).students
    ELSE Augmented(f, i).students.student

\* The student entries an association value holds; None holds none.
StudentsOf(v) == StudentsOfValue(v)

\* The students of the input whose `room` is id, in input order.
Matching(id) == SelectSeq(students_in, LAMBDA s : RoomKey(s) = id)

\* How often x occurs in the sequence s.
RECURSIVE Count(_, _)
Count(x, s) ==
    IF s = <<>> THEN 0
    ELSE (IF Head(s) = x THEN 1 ELSE 0) + Count(x, Tail(s))

RECURSIVE SumOver(_, _, _)
SumOver(F(_), n, i) == IF i > n THEN 0 ELSE F(i) + SumOver(F, n, i + 1)

\* How often the student record x occurs in the whole output of variant f.
Occurrences(f, x) ==
    LET InRoom(i) == Count(x, StudentsOf(Association(f, i)))
    IN  SumOver(InRoom, Len(cmp[f].returned.items), 1)

DistinctRoomIds ==
    \A i, j \in DOMAIN rooms_in : rooms_in[i].id = rooms_in[j].id => i = j

MatchesSomeRoom(x) == \E i \in DOMAIN rooms_in : rooms_in[i].id = RoomKey(x)

(***************************************************************************)
(* C1.  A room whose id is the `room` of no student is returned with the   *)
(* key `students` present and holding an empty list (flat), or a dict      *)
(* {student: empty list} (wrapped); never None, never a missing key.       *)
(* The code attaches None: dict.get() of a room id that is no key of the   *)
(* index.                                                                  *)
(***************************************************************************)
C1_EmptyAssociationIsEmptyList ==
    \A f \in Formats : Compared(f) =>
        \A i \in DOMAIN cmp[f].returned.items :
            Matching(Augmented(f, i).id) = <<>> =>
                /\ HasAssociation(f, i)
                /\ Association(f, i) = PyList(<<>>)

(***************************************************************************)
(* C2.  The students attached to each returned room are, in order, exactly *)
(* the students of the input whose `room` is that room's id, in input      *)
(* order: the sort by room and the grouping never reorder two students of  *)
(* the same room.                                                          *)
(***************************************************************************)
C2_PerRoomOrderIsInputOrder ==
    \A f \in Formats : Compared(f) =>
        \A i \in DOMAIN cmp[f].returned.items :
            /\ HasAssociation(f, i)
            /\ StudentsOf(Association(f, i)) = Matching(Augmented(f, i).id)

\* Some room got two different students of the input, which the input holds
\* with a student of another room between them.
C2_Witness ==
    \E f \in Formats : Compared(f) /\
        \E i \in DOMAIN cmp[f].returned.items :
            LET got == StudentsOf(Association(f, i)) IN
            /\ Len(got) = 2 /\ got[1] # got[2]
            /\ Len(students_in) = 3
            /\ RoomKey(students_in[2]) # RoomKey(students_in[1])
            /\ RoomKey(students_in[3]) = RoomKey(students_in[1])
            /\ RoomKey(students_in[2]) < RoomKey(students_in[1])

(***************************************************************************)
(* C3 as stated.  For any rooms and students, every student whose `room`   *)
(* is the id of some room occurs in exactly one room's association, every  *)
(* other student in none; none occurs twice and none is dropped.           *)
(***************************************************************************)
C3_EachStudentOnce_Original ==
    \A f \in Formats : Compared(f) =>
        \A x \in Range(students_in) :
            Occurrences(f, x) =
                IF MatchesSomeRoom(x) THEN Count(x, students_in) ELSE 0

(***************************************************************************)
(* C3 as amended.  The same, for rooms inputs whose ids are pairwise       *)
(* distinct: a student record occurs in the output as often as in the      *)
(* input when its `room` is the id of a room, and not at all otherwise.    *)
(***************************************************************************)
C3_EachStudentOnce ==
    DistinctRoomIds => C3_EachStudentOnce_Original

\* Distinct room ids, a student attached, and a student that matches no room.
C3_Witness ==
    /\ DistinctRoomIds
    /\ Len(rooms_in) = 2
    /\ \A f \in Formats : Compared(f)
    /\ \E x \in Range(students_in) : MatchesSomeRoom(x) /\ Occurrences("json", x) = 1
    /\ \E x \in Range(students_in) : ~MatchesSomeRoom(x)

(***************************************************************************)
(* C4.  Every student entry attached to a room has exactly the fields      *)
(* `id` and `name`.  The code attaches the student dicts of the input as   *)
(* they are, `room` included.                                              *)
(***************************************************************************)
C4_EntriesAreIdNameProjections ==
    \A f \in Formats : Compared(f) =>
        \A i \in DOMAIN cmp[f].returned.items :
            LET got == StudentsOf(Association(f, i)) IN
            \A k \in DOMAIN got : DOMAIN got[k] = {"id", "name"}

(***************************************************************************)
(* C7.  compare() leaves the caller's rooms list unchanged: the list holds *)
(* the same dicts, each with the fields and values it had, after any       *)
(* number of compare() calls of either variant; the returned rooms are     *)
(* other objects than the caller's, as many and in the same order.         *)
(***************************************************************************)
C7_InputRoomsUnchanged ==
    /\ rooms_data = [i \in 1..Len(rooms_in) |-> i]
    /\ \A i \in DOMAIN rooms_data : heap[rooms_data[i]] = rooms_in[i]
    /\ \A f \in Formats : Compared(f) =>
        /\ Len(cmp[f].returned.items) = Len(rooms_in)
        /\ Range(cmp[f].returned.items) \cap Range(rooms_data) = {}
        /\ \A i \in DOMAIN rooms_in :
               [k \in DOMAIN rooms_in[i] |-> Augmented(f, i)[k]] = rooms_in[i]

\* Both variants have run on two rooms and a room got a student.
C7_Witness ==
    /\ Len(rooms_in) = 2
    /\ \A f \in Formats : Compared(f)
    /\ \E i \in DOMAIN rooms_in : StudentsOf(Association("json", i)) # <<>>
    /\ \A i \in DOMAIN rooms_in : "students" \notin DOMAIN heap[rooms_data[i]]

(***************************************************************************)
(* C8.  During one compare() call the index is constructed at most once,   *)
(* for every students input including the empty one.  With no students the *)
(* index is the empty dict, which `not cache` takes for a missing one: it  *)
(* is rebuilt for every room.                                              *)
(***************************************************************************)
C8_IndexBuiltAtMostOnce ==
    \A f \in Formats : cmp[f].builds <= 1

(***************************************************************************)
(* C9.  For the same inputs and every room, the value the flat variant     *)
(* puts under `students` equals the value the wrapped variant puts under   *)
(* `students.student`, and the other fields of the two augmented rooms are *)
(* equal.                                                                  *)
(***************************************************************************)
C9_FlatAndWrappedAgree ==
    (Compared("json") /\ Compared("xml")) =>
        /\ Len(cmp["json"].returned.items) = Len(cmp["xml"].returned.items)
        /\ \A i \in DOMAIN cmp["json"].returned.items :
            /\ HasAssociation("json", i) /\ HasAssociation("xml", i)
            /\ DOMAIN Augmented("xml", i).students = {"student"}
            /\ Association("json", i) = Association("xml", i)
            /\ DOMAIN Augmented("json", i) = DOMAIN Augmented("xml", i)
            /\ \A k \in DOMAIN Augmented("json", i) \ {"students"} :
                   Augmented("json", i)[k] = Augmented("xml", i)[k]

\* Both variants have run; one room got two students, another none.
C9_Witness ==
    /\ Compared("json") /\ Compared("xml")
    /\ \E i \in DOMAIN rooms_in : Len(StudentsOf(Association("xml", i))) = 2
    /\ \E i \in DOMAIN rooms_in : Association("xml", i).isNone

(***************************************************************************)
(* One run of RoomStudentFileHandler: construction, then __call__, which   *)
(* evaluates write_output_file's nested property reads innermost first.    *)
(***************************************************************************)
\* RoomStudentOutputFormat.__supported_output_formats
SupportedFormats == {"json", "xml"}

\* The descriptor accepts every value.
FormatNotValidated(value) == TRUE

\* RoomStudentOutputFormat.__set__: the value is stored, else ValueError.
FormatAccepted(value) == value \in SupportedFormats

\* JSONInputFilePath.__set__ followed by JSONInputDataConverter.get_data:
\* the exception raised for a file, "" when its data is returned.
LoadError(file) ==
    IF file.kind = "missing" THEN "FileNotFoundError"
    ELSE IF file.kind = "not_json_ext" THEN "ValueError"
    ELSE IF file.kind = "bad_json" THEN "JSONDecodeError"
    ELSE ""

\* The file contents of the runs.
ExampleRooms == <<[id |-> 1, name |-> "Math"], [id |-> 2, name |-> "Physics"]>>
ExampleStudents ==
    <<[id |-> 10, name |-> "Alice", room |-> 1],
      [id |-> 11, name |-> "Bob", room |-> 2],
      [id |-> 10, name |-> "Alice", room |-> 1]>>
RoomFiles == {<<>>, ExampleRooms, <<[id |-> 1, name |-> Surrogate]>>}
StudentFiles == {<<>>, ExampleStudents,
                 <<RoomlessStudent, [id |-> 11, name |-> "Bob", room |-> 1]>>}

FileStates(contents) ==
    {[kind |-> k, data |-> <<>>] : k \in {"missing", "not_json_ext", "bad_json"}}
    \cup {[kind |-> "ok", data |-> d] : d \in contents}

\* self._comparison_handler(rooms, students).compare(): the list returned,
\* or the exception.  The handler of a format that is no key of
\* _comparison_handlers is None, and calling it raises TypeError.
ComparedData(fmt, rooms, students) ==
    IF fmt \notin Formats THEN [error |-> "TypeError", data |-> <<>>]
    ELSE LET c == Construct(rooms, [i \in 1..Len(rooms) |-> i], students) IN
         IF c.obj.state # "ready" THEN [error |-> c.obj.state, data |-> <<>>]
         ELSE LET r == Compare(fmt, c.heap, c.obj) IN
              [error |-> "",
               data  |-> [i \in 1..Len(rooms) |-> r.heap[r.obj.returned.items[i]]]]

\* json.dumps(data): ensure_ascii escapes every non-ASCII character.
JSONSerialize(data) == [root |-> "", wrap |-> "", data |-> data, ascii |-> TRUE]

\* "<rooms>\n" + dict2xml(data, wrap="room") + "\n</rooms>": the strings of
\* the data are written as they are.
XMLSerialize(data) ==
    [root |-> "rooms", wrap |-> "room", data |-> data,
     ascii |-> \A i \in DOMAIN data :
                  /\ data[i].name # Surrogate
                  /\ LET got == StudentsOfValue(data[i].students.student) IN
                     \A k \in DOMAIN got : got[k].name # Surrogate]

Serialize(fmt, data) ==
    IF fmt = "json" THEN JSONSerialize(data) ELSE XMLSerialize(data)

IdleComparer ==
    /\ rooms_in = <<>>
    /\ students_in = <<>>
    /\ heap = <<>>
    /\ rooms_data = <<>>
    /\ cmp = [f \in Formats |-> Unbuilt]

InitRun ==
    /\ pc = "start"
    /\ output_format \in SupportedFormats \cup {"yaml"}
    /\ fs \in [rooms    : FileStates(RoomFiles),
               students : FileStates(StudentFiles),
               writable : BOOLEAN]
    /\ out_file \in {"absent", "old"}
    /\ run = EmptyDict
    /\ error = ""
    /\ trace = <<>>
    /\ IdleComparer
    /\ IdleVer

Fail(step, exc) ==
    /\ pc' = "failed"
    /\ error' = exc
    /\ trace' = Append(trace, step)

\* RoomStudentFileHandler.__init__: RoomStudentFileFactory.__init__ sets
\* _output_format through the descriptor.
NewHandler ==
    /\ pc = "start"
    /\ IF FormatAccepted(output_format)
       THEN /\ pc' = "created"
            /\ trace' = Append(trace, "construct")
            /\ UNCHANGED error
       ELSE Fail("construct", "ValueError")
    /\ UNCHANGED <<output_format, fs, out_file, run, cmpVars, ver>>

\* _rooms_data
LoadRooms ==
    /\ pc = "created"
    /\ IF LoadError(fs.rooms) = ""
       THEN /\ pc' = "rooms_loaded"
            /\ run' = DictUpdate(run, [rooms |-> fs.rooms.data])
            /\ trace' = Append(trace, "load rooms")
            /\ UNCHANGED error
       ELSE Fail("load rooms", LoadError(fs.rooms)) /\ UNCHANGED run
    /\ UNCHANGED <<output_format, fs, out_file, cmpVars, ver>>

\* _students_data
LoadStudents ==
    /\ pc = "rooms_loaded"
    /\ IF LoadError(fs.students) = ""
       THEN /\ pc' = "students_loaded"
            /\ run' = DictUpdate(run, [students |-> fs.students.data])
            /\ trace' = Append(trace, "load students")
            /\ UNCHANGED error
       ELSE Fail("load students", LoadError(fs.students)) /\ UNCHANGED run
    /\ UNCHANGED <<output_format, fs, out_file, cmpVars, ver>>

\* _compared_data
CompareStep ==
    /\ pc = "students_loaded"
    /\ LET c == ComparedData(output_format, run.rooms, run.students) IN
       IF c.error = ""
       THEN /\ pc' = "compared"
            /\ run' = DictUpdate(run, [compared |-> c.data])
            /\ trace' = Append(trace, "compare")
            /\ UNCHANGED error
       ELSE Fail("compare", c.error) /\ UNCHANGED run
    /\ UNCHANGED <<output_format, fs, out_file, cmpVars, ver>>

\* _serialized_data
SerializeStep ==
    /\ pc = "compared"
    /\ pc' = "serialized"
    /\ run' = DictUpdate(run, [serialized |-> Serialize(output_format, run.compared)])
    /\ trace' = Append(trace, "serialize")
    /\ UNCHANGED <<output_format, fs, out_file, error, cmpVars, ver>>

\* RoomStudentOutputFile.__init__ and, in write_file, open(..., "w"): the
\* file is created or truncated, or open raises and the file is untouched.
OpenOutput ==
    /\ pc = "serialized"
    /\ IF ~FormatAccepted(output_format)
       THEN Fail("open", "ValueError") /\ UNCHANGED out_file
       ELSE IF ~fs.writable
       THEN Fail("open", "PermissionError") /\ UNCHANGED out_file
       ELSE /\ pc' = "opened"
            /\ out_file' = "empty"
            /\ trace' = Append(trace, "open")
            /\ UNCHANGED error
    /\ UNCHANGED <<output_format, fs, run, cmpVars, ver>>

\* output.write(self._serialized_data): a string with a lone surrogate
\* cannot be encoded, write raises and the with block closes the file.
WriteOutput ==
    /\ pc = "opened"
    /\ IF run.serialized.ascii
       THEN /\ pc' = "written"
            /\ out_file' = "complete"
            /\ trace' = Append(trace, "write")
            /\ UNCHANGED error
       ELSE Fail("write", "UnicodeEncodeError") /\ UNCHANGED out_file
    /\ UNCHANGED <<output_format, fs, run, cmpVars, ver>>

Next ==
    \/ NewHandler
    \/ LoadRooms
    \/ LoadStudents
    \/ CompareStep
    \/ SerializeStep
    \/ OpenOutput
    \/ WriteOutput

Spec == InitRun /\ [][Next]_vars

\* The steps of a run, in the order the claim gives them.
StepOrder == <<"construct", "load rooms", "load students", "compare",
               "serialize", "open", "write">>

IsPrefix(s, t) == Len(s) <= Len(t) /\ \A i \in DOMAIN s : s[i] = t[i]

\* The output file is as it was before the run.
OutputUntouched == out_file \in {"absent", "old"}

(***************************************************************************)
(* C5.  A handler given a format outside {json, xml} fails at construction *)
(* time: nothing but the construction has happened, no input file has been *)
(* checked or read, the output file is untouched and no later step runs.   *)
(***************************************************************************)
C5_UnsupportedFormatFailsFirst ==
    output_format \notin {"json", "xml"} =>
        /\ pc \in {"start", "failed"}
        /\ IsPrefix(trace, <<"construct">>)
        /\ OutputUntouched
        /\ pc = "failed" => error = "ValueError"

\* The run was given "yaml", both input files are good, and it has failed.
C5_Witness ==
    /\ output_format = "yaml"
    /\ pc = "failed"
    /\ fs.rooms.kind = "ok" /\ fs.students.kind = "ok" /\ fs.writable

(***************************************************************************)
(* C6.  The steps of a run happen in the order load rooms, load students,  *)
(* compare, serialize, write; a failed step is the last step; a missing    *)
(* rooms or students file fails before compare; and no output file is      *)
(* created or overwritten on a failed run.  The last part fails: write     *)
(* can raise after open(..., "w") has created or truncated the file.       *)
(***************************************************************************)
C6_StepsInOrderAndNoOutputOnFailure ==
    /\ IsPrefix(trace, StepOrder)
    /\ error = "FileNotFoundError" =>
           /\ \A i \in DOMAIN trace : trace[i] \notin {"compare", "serialize", "open", "write"}
           /\ "compared" \notin DOMAIN run
    /\ "open" \in Range(trace) => "serialized" \in DOMAIN run
    /\ pc = "failed" => OutputUntouched

(***************************************************************************)
(* task_2: Version and main().                                             *)
(*                                                                         *)
(* A version string is modelled by its parts: the release numbers, the     *)
(* pre-release words after them and the number that ends them (0 when the  *)
(* string gives none): "1.2.0-alpha.1" is V(<<1, 2, 0>>, <<"alpha">>, 1).  *)
(* parse_version is the one of a setuptools that still has LegacyVersion,  *)
(* under which main()'s assertions pass: a string that is no PEP 440       *)
(* version parses to a legacy version, which sorts before every PEP 440    *)
(* version.                                                                *)
(***************************************************************************)
V(release, pre, n) == [release |-> release, pre |-> pre, n |-> n]

\* main(): to_test
to_test ==
    << <<V(<<1, 0, 0>>, <<>>, 0),                 V(<<2, 0, 0>>, <<>>, 0)>>,
       <<V(<<1, 0, 0>>, <<>>, 0),                 V(<<1, 42, 0>>, <<>>, 0)>>,
       <<V(<<1, 2, 0>>, <<>>, 0),                 V(<<1, 2, 42>>, <<>>, 0)>>,
       <<V(<<1, 1, 0>>, <<"alpha">>, 0),          V(<<1, 2, 0>>, <<"alpha">>, 1)>>,
       <<V(<<1, 0, 10>>, <<"alpha", "beta">>, 0), V(<<1, 0, 1>>, <<"b">>, 0)>>,
       <<V(<<1, 0, 0>>, <<"rc">>, 1),             V(<<1, 0, 0>>, <<>>, 0)>> >>

\* The version strings of to_test, and "1.0", "1.0.0-beta", "1.0.0-alpha.beta".
Versions ==
    UNION {{to_test[i][1], to_test[i][2]} : i \in DOMAIN to_test}
    \cup {V(<<1, 0>>, <<>>, 0), V(<<1, 0, 0>>, <<"beta">>, 0),
          V(<<1, 0, 0>>, <<"alpha", "beta">>, 0)}

\* The release with its trailing zeros dropped.
RECURSIVE StripZeros(_)
StripZeros(r) ==
    IF r # <<>> /\ r[Len(r)] = 0 THEN StripZeros(SubSeq(r, 1, Len(r) - 1)) ELSE r

\* The pre-release letter as its rank in string order: a < b < rc.
PreRank(word) ==
    IF word \in {"a", "alpha"} THEN 1
    ELSE IF word \in {"b", "beta"} THEN 2
    ELSE 3

\* The parts of a legacy key as their ranks in string order: "*alpha" <
\* "*beta" < "*final" < every zero-padded number.  The zeros that end the
\* numbers before the first word are dropped.
LegacyRank(word) == IF word \in {"a", "alpha"} THEN 1 ELSE 2

LegacyParts(v) ==
    [i \in 1..Len(StripZeros(v.release)) |-> 10 + v.release[i]]
    \o [i \in 1..Len(v.pre) |-> LegacyRank(v.pre[i])]
    \o <<3>>

\* Version.parsed_version: the key parse_version's result compares by,
\* (epoch, release, pre) with Infinity for a final release as <<4, 0>>.
ParsedVersion(v) ==
    IF Len(v.pre) > 1
    THEN [epoch |-> -1, body |-> LegacyParts(v), pre |-> <<>>]
    ELSE [epoch |-> 0,
          body  |-> StripZeros(v.release),
          pre   |-> IF v.pre = <<>> THEN <<4, 0>> ELSE <<PreRank(v.pre[1]), v.n>>]

\* s < t and s > t of two tuples of integers: the first differing elements
\* decide, and a proper prefix is the smaller.
RECURSIVE TupleLt(_, _)
TupleLt(s, t) ==
    IF s = <<>> THEN t # <<>>
    ELSE IF t = <<>> THEN FALSE
    ELSE IF Head(s) # Head(t) THEN Head(s) < Head(t)
    ELSE TupleLt(Tail(s), Tail(t))

RECURSIVE TupleGt(_, _)
TupleGt(s, t) ==
    IF t = <<>> THEN s # <<>>
    ELSE IF s = <<>> THEN FALSE
    ELSE IF Head(s) # Head(t) THEN Head(s) > Head(t)
    ELSE TupleGt(Tail(s), Tail(t))

\* k < l, k > l, k != l of two parsed versions.
KeyLt(k, l) ==
    IF k.epoch # l.epoch THEN k.epoch < l.epoch
    ELSE IF k.body # l.body THEN TupleLt(k.body, l.body)
    ELSE TupleLt(k.pre, l.pre)

KeyGt(k, l) ==
    IF k.epoch # l.epoch THEN k.epoch > l.epoch
    ELSE IF k.body # l.body THEN TupleGt(k.body, l.body)
    ELSE TupleGt(k.pre, l.pre)

KeyNe(k, l) == k # l

\* Version.__lt__
Version__lt__(self, other) == KeyLt(ParsedVersion(self), ParsedVersion(other))

\* __gt__ written with the comparison of __lt__.
Version__gt__AsLt(self, other) == KeyLt(ParsedVersion(self), ParsedVersion(other))

\* Version.__gt__
Version__gt__(self, other) == KeyGt(ParsedVersion(self), ParsedVersion(other))

\* Version.__ne__
Version__ne__(self, other) == KeyNe(ParsedVersion(self), ParsedVersion(other))

\* The body of main()'s loop for one pair (version_1, version_2) = (a, b):
\* three assertions, each evaluated once; `res` holds the values they had.
InitVersion ==
    /\ \E a, b \in Versions :
          ver = [pc |-> "assert lt", a |-> a, b |-> b, res |-> <<>>, failed |-> ""]
    /\ IdleComparer
    /\ IdleRun

Asserted(next, value, message) ==
    ver' = [ver EXCEPT !.pc = IF value THEN next ELSE "AssertionError",
                       !.res = Append(@, value),
                       !.failed = IF value THEN "" ELSE message]

\* assert Version(version_1) < Version(version_2), "lt failed"
AssertLt ==
    /\ ver.pc = "assert lt"
    /\ Asserted("assert gt", Version__lt__(ver.a, ver.b), "lt failed")
    /\ UNCHANGED <<cmpVars, runVars>>

\* assert Version(version_2) > Version(version_1), "gt failed"
AssertGt ==
    /\ ver.pc = "assert gt"
    /\ Asserted("assert ne", Version__gt__(ver.b, ver.a), "gt failed")
    /\ UNCHANGED <<cmpVars, runVars>>

\* assert Version(version_2) != Version(version_1), "ne failed"
AssertNe ==
    /\ ver.pc = "assert ne"
    /\ Asserted("passed", Version__ne__(ver.b, ver.a), "ne failed")
    /\ UNCHANGED <<cmpVars, runVars>>

NextVersion == AssertLt \/ AssertGt \/ AssertNe

SpecVersion == InitVersion /\ [][NextVersion]_vars

\* The parsed version of a is strictly before that of b: a step of the
\* keys' lexicographic order, element by element.
RECURSIVE SeqBefore(_, _, _)
SeqBefore(s, t, i) ==
    IF i > Len(s) THEN i <= Len(t)
    ELSE IF i > Len(t) THEN FALSE
    ELSE s[i] < t[i] \/ (s[i] = t[i] /\ SeqBefore(s, t, i + 1))

StrictlyBefore(a, b) ==
    LET k == ParsedVersion(a)
        l == ParsedVersion(b)
    IN  \/ k.epoch < l.epoch
        \/ k.epoch = l.epoch /\ k.body # l.body /\ SeqBefore(k.body, l.body, 1)
        \/ k.epoch = l.epoch /\ k.body = l.body /\ SeqBefore(k.pre, l.pre, 1)

(***************************************************************************)
(* C10.  For Version objects a and b whose parsed versions are ordered     *)
(* with a strictly before b, a < b, b > a and b != a are all true: none of *)
(* the three assertions of main() fails for the pair.                      *)
(***************************************************************************)
C10_ComparisonsAgree ==
    StrictlyBefore(ver.a, ver.b) =>
        /\ ver.failed = ""
        /\ \A i \in DOMAIN ver.res : ver.res[i]
        /\ ver.pc = "passed" => ver.res = <<TRUE, TRUE, TRUE>>

\* The three assertions have passed for the pair of to_test that holds the
\* legacy version.
C10_Witness ==
    /\ ver.pc = "passed"
    /\ <<ver.a, ver.b>> = to_test[5]
    /\ StrictlyBefore(ver.a, ver.b)
    /\ ver.res = <<TRUE, TRUE, TRUE>>

====
